---- MODULE Spec2Model ----
(***************************************************************************)
(* A model of the Database provider of adonis-lucid (mongo flavour):      *)
(* the connection pool of src/src/Database/index.js and its query paging  *)
(* helpers (forPage, paginate, chunk).                                     *)
(*                                                                         *)
(* the schema builder of the same file, and the EmbedsOne relation of     *)
(* src/src/LucidMongo/Relations.                                           *)
(*                                                                         *)
(* The specifications sharing the module:                                  *)
(*   Spec           the connection pool (connection, close, resolve)       *)
(*   SpecForPage    direct forPage calls on one query object               *)
(*   SpecPager      paginate calls on one query object                     *)
(*   SpecChunk      chunk walks over a collection                          *)
(*   SpecSchema     index and dropIndex calls on a SchemaBuilder, build    *)
(*   SpecEmbed      save and delete on an EmbedsOne relation               *)
(*   SpecEagerLoad  EmbedsOne.eagerLoad over a result set                  *)
(*   SpecLoader     EagerLoader.load over a result set                     *)
(***************************************************************************)
EXTENDS Integers, Sequences, FiniteSets, TLC

VARIABLES
    \* ---- connection pool (Spec) ----
    cfgDefault,       \* ConfigProvider.get('database.connection'); "" when unset
    cfgEntries,       \* the names X for which ConfigProvider.get('database.X') exists
    connectionPools,  \* name -> handle id, 0 when the name has no entry
    opened,           \* number of handles MongoClient.connect has produced so far
    handleName,       \* handle id -> the connection name it was opened for
    closeCount,       \* handle id -> how many times .close() was called on it
    calls,            \* every connection(key) call made so far and what its caller has
    opening,          \* indices of calls whose MongoClient.connect is in flight
    overtaken,        \* indices of calls whose connect was in flight when the pool
                      \* was reset by close
    ev,               \* the last step taken and the pool state it started from
    \* ---- query paging (SpecPager, SpecChunk) ----
    rows,             \* number of documents in the collection the query runs on
    qSkip,            \* the query object's skip option
    qLimit,           \* the query object's limit option
    fp,               \* outcome of the last direct forPage call
    pg,               \* the paginate call in progress
    ch,               \* the chunk walk in progress
    \* ---- schema builder (SpecSchema) ----
    sb,               \* one SchemaBuilder: its two queues and its build() run
    \* ---- EmbedsOne save and delete (SpecEmbed) ----
    em,               \* one EmbedsOne relation: its parent, the instance passed to
                      \* save, and the save() or delete() in progress
    \* ---- EmbedsOne eager loading (SpecEagerLoad) ----
    eg,               \* the parent rows, the objects they refer to and the mapping
                      \* eagerLoad returned
    \* ---- EagerLoader (SpecLoader) ----
    ld                \* one EagerLoader.load call: the relations requested, the
                      \* eagerLoad calls made and what was attached to the parents

poolVars == <<cfgDefault, cfgEntries, connectionPools, opened, handleName,
              closeCount, calls, opening, overtaken, ev>>
pagerVars == <<rows, qSkip, qLimit, fp, pg>>
chunkVars == <<ch>>
schemaVars == <<sb>>
embedVars == <<em>>
eagerVars == <<eg>>
loaderVars == <<ld>>
restVars == <<schemaVars, embedVars, eagerVars, loaderVars>>
vars == <<poolVars, pagerVars, chunkVars, restVars>>

----------------------------------------------------------------------------
(* Bounds *)

\* connection(key) calls made in one behaviour
MaxCalls == 2
\* documents the collection can hold
MaxRows == 5
\* largest page / perPage / limit argument tried
MaxArg == 3
\* index declarations, and drops, one SchemaBuilder can queue
MaxQueue == 2
\* save() and delete() calls made on one relation
MaxWrites == 3
\* parent rows in a result set
MaxParents == 3

----------------------------------------------------------------------------
(* Connection pool *)

\* connection names that can be configured and pooled
Names == {"a", "b"}
\* keys a caller passes: the sentinel and the names
Keys == {"default"} \cup Names
\* values tried for the database.connection entry ("" is unset); the names are
\* interchangeable, so one of them stands for both
DefaultChoices == {"", "a"}
\* a key that is not given (undefined) or is otherwise falsy
NoKey == ""

HandleIds == 1..MaxCalls

\* ConfigProvider.get(path): the value stored, "" (falsy) when there is none
ConfigGet(path) ==
    IF path = "database.connection" THEN cfgDefault ELSE ""

\* resolveConnectionKey without the lookup of the configured default
resolveKeyUnchanged(connection) ==
    [threw |-> FALSE, value |-> connection, reads |-> <<>>]

\* Database._resolveConnectionKey: the name, or a thrown missingConfig; reads is
\* the list of configuration paths it looked up
resolveConnectionKey(connection) ==
    IF connection = "default"
    THEN LET c == ConfigGet("database.connection") IN
         IF c = ""
         THEN [threw |-> TRUE, value |-> "", reads |-> <<"database.connection">>]
         ELSE [threw |-> FALSE, value |-> c, reads |-> <<"database.connection">>]
    ELSE [threw |-> FALSE, value |-> connection, reads |-> <<>>]

\* connectionPools[name] is truthy
Pooled(pool, name) == name \in Names /\ pool[name] # 0

\* HasConfig without the check of the configuration entry
HasConfigUnchecked(name) == TRUE

\* ConfigProvider.get(`database.${name}`) is truthy
HasConfig(name) == name \in cfgEntries

NoEv == [op |-> "init", key |-> "", threw |-> FALSE, value |-> "",
         reads |-> <<>>, poolBefore |-> [n \in Names |-> 0],
         closedBefore |-> [h \in HandleIds |-> 0],
         openingBefore |-> {}, call |-> 0]

Step(op, key, r, call) ==
    [op |-> op, key |-> key, threw |-> r.threw, value |-> r.value,
     reads |-> r.reads, poolBefore |-> connectionPools,
     closedBefore |-> closeCount, openingBefore |-> opening, call |-> call]

NoResolve == [threw |-> FALSE, value |-> "", reads |-> <<>>]

Call(key, name, status, handle, err) ==
    [key |-> key, name |-> name, status |-> status, handle |-> handle, err |-> err]

\* Database.connection(key), up to the point where it returns its promise: the
\* executor of new Promise runs synchronously inside the call
Connection(key) ==
    /\ Len(calls) < MaxCalls
    /\ LET r == resolveConnectionKey(key)
           id == Len(calls) + 1
       IN  /\ ev' = Step("connection", key, r, id)
           /\ IF r.threw
              THEN /\ calls' = Append(calls, Call(key, "", "threw", 0, "missingConfig"))
                   /\ UNCHANGED opening
              ELSE IF ~Pooled(connectionPools, r.value)
              THEN IF ~HasConfig(r.value)
                   THEN /\ calls' = Append(calls,
                               Call(key, r.value, "rejected", 0, "missingConfig"))
                        /\ UNCHANGED opening
                   ELSE /\ calls' = Append(calls, Call(key, r.value, "pending", 0, ""))
                        /\ opening' = opening \cup {id}
              ELSE /\ calls' = Append(calls,
                          Call(key, r.value, "resolved", connectionPools[r.value], ""))
                   /\ UNCHANGED opening
    /\ UNCHANGED <<cfgDefault, cfgEntries, connectionPools, opened, handleName, closeCount,
                   overtaken>>

\* MongoClient.connect(...) of call i fulfils and its then-callback runs:
\* the new handle is stored under the name and handed to the caller. Nothing
\* reads the handle between the two, so they are one step.
ConnectFulfilled(i) ==
    /\ i \in opening
    /\ LET h == opened + 1
           name == calls[i].name
       IN  /\ opened' = h
           /\ handleName' = [handleName EXCEPT ![h] = name]
           /\ connectionPools' = [connectionPools EXCEPT ![name] = h]
           /\ calls' = [calls EXCEPT ![i].status = "resolved", ![i].handle = h]
    /\ opening' = opening \ {i}
    /\ ev' = Step("connected", calls[i].key, NoResolve, i)
    /\ UNCHANGED <<cfgDefault, cfgEntries, closeCount, overtaken>>

\* MongoClient.connect(...) of call i rejects: the then() has no rejection
\* handler and neither resolve nor reject of the outer promise is ever called
ConnectRejected(i) ==
    /\ i \in opening
    /\ opening' = opening \ {i}
    /\ calls' = [calls EXCEPT ![i].err = "connectRejected"]
    /\ ev' = Step("connectFailed", calls[i].key, NoResolve, i)
    /\ UNCHANGED <<cfgDefault, cfgEntries, connectionPools, opened, handleName, closeCount,
                   overtaken>>

\* CloseOne without the delete of the pool entry
CloseOneKeepsEntry(name) ==
    /\ closeCount' = [closeCount EXCEPT ![connectionPools[name]] = @ + 1]
    /\ UNCHANGED <<connectionPools, overtaken>>

\* the branch of Database.close taken for a pooled name: close it, delete it
CloseOne(name) ==
    /\ closeCount' = [closeCount EXCEPT ![connectionPools[name]] = @ + 1]
    /\ connectionPools' = [connectionPools EXCEPT ![name] = 0]
    /\ UNCHANGED overtaken

\* the rest of Database.close: close every pooled handle, reset the pool
CloseEach ==
    /\ closeCount' = [h \in HandleIds |->
                        IF \E n \in Names : connectionPools[n] = h
                        THEN closeCount[h] + 1 ELSE closeCount[h]]
    /\ connectionPools' = [n \in Names |-> 0]
    /\ overtaken' = overtaken \cup opening

\* Database.close(key); key = NoKey is close()
Close(key) ==
    /\ LET r == IF key # NoKey THEN resolveConnectionKey(key) ELSE NoResolve
       IN  /\ ev' = Step("close", key, r, 0)
           /\ IF r.threw
              THEN UNCHANGED <<connectionPools, closeCount, overtaken>>
              ELSE IF r.value # "" /\ Pooled(connectionPools, r.value)
                   THEN CloseOne(r.value)
                   ELSE CloseEach
    /\ UNCHANGED <<cfgDefault, cfgEntries, opened, handleName, calls, opening>>

\* a direct call of Database._resolveConnectionKey(key)
Resolve(key) ==
    /\ ev' = Step("resolve", key, resolveConnectionKey(key), 0)
    /\ UNCHANGED <<cfgDefault, cfgEntries, connectionPools, opened, handleName,
                   closeCount, calls, opening, overtaken>>

PoolInit ==
    /\ cfgDefault \in DefaultChoices
    /\ cfgEntries \in SUBSET Names
    /\ connectionPools = [n \in Names |-> 0]
    /\ opened = 0
    /\ handleName = [h \in HandleIds |-> ""]
    /\ closeCount = [h \in HandleIds |-> 0]
    /\ calls = <<>>
    /\ opening = {}
    /\ overtaken = {}
    /\ ev = NoEv

----------------------------------------------------------------------------
(* JavaScript values that reach the paging helpers *)

Num(n) == [t |-> "int", v |-> n]
\* undefined: an omitted argument, an option never set, an absent result
Undef == [t |-> "undef", v |-> 0]
\* the number n + 1/2
Half(n) == [t |-> "half", v |-> n]
\* a string that is not a number, such as 'abc'
Str == [t |-> "str", v |-> 0]

\* !x
Falsy(x) == x.t = "undef" \/ (x.t = "int" /\ x.v = 0)

\* _.toSafeInteger(x): truncation toward zero, 0 for undefined and NaN
toSafeInteger(x) ==
    CASE x.t = "int" -> x.v
      [] x.t = "half" -> IF x.v >= 0 THEN x.v ELSE x.v + 1
      [] OTHER -> 0

\* parseInt(x, 10) of a count the driver returned
parseInt(x) == IF x.t = "int" THEN x.v ELSE 0

Max(a, b) == IF a >= b THEN a ELSE b
Min(a, b) == IF a <= b THEN a ELSE b
\* Math.ceil(a / b) for a >= 0, b > 0
Ceil(a, b) == (a + b - 1) \div b

\* the documents a find() with these options returns from a collection of n
\* documents, which are numbered 1..n in the query's order
Page(n, skip, limit) ==
    [i \in 1..Max(0, Min(n - skip, limit)) |-> skip + i]

----------------------------------------------------------------------------
(* lib/util: validatePage, returnOffset, makePaginateMeta *)

\* util.validatePage(page) passes
validatePage(page) == page.t = "int" /\ page.v >= 1

\* util.returnOffset(page, perPage)
returnOffset(page, perPage) == (page - 1) * perPage

\* util.makePaginateMeta(total, page, perPage)
makePaginateMeta(total, page, perPage) ==
    [total |-> total, perPage |-> perPage, page |-> page,
     lastPage |-> Max(1, Ceil(total, perPage)), data |-> <<>>]

----------------------------------------------------------------------------
(* Database.forPage *)

\* perPage = perPage || 20 at line 281
ForPageDefault == 20
\* _.toSafeInteger(perPage) || 20 at line 304
PaginateDefault == 20

\* forPage without the fallback of a falsy perPage
forPageNoDefault(page, perPage) ==
    IF ~validatePage(page)
    THEN [threw |-> TRUE, skip |-> qSkip, limit |-> qLimit]
    ELSE [threw |-> FALSE,
          skip |-> Num(returnOffset(page.v, perPage.v)),
          limit |-> perPage]

\* Database.forPage(page, perPage) on the query object: whether it threw, and
\* the skip and limit options the query has afterwards
forPage(page, perPage) ==
    IF ~validatePage(page)
    THEN [threw |-> TRUE, skip |-> qSkip, limit |-> qLimit]
    ELSE LET pp == IF Falsy(perPage) THEN Num(ForPageDefault) ELSE perPage
         IN  [threw |-> FALSE,
              skip |-> Num(returnOffset(page.v, pp.v)),
              limit |-> pp]

PageArgs == {Undef, Str, Half(0), Half(1)} \cup {Num(n) : n \in -1..MaxArg}
PerPageArgs == {Undef} \cup {Num(n) : n \in 0..MaxArg}

NoFp == [called |-> FALSE, page |-> Undef, perPage |-> Undef, threw |-> FALSE,
         skipBefore |-> Undef, limitBefore |-> Undef]

\* a caller runs query.forPage(page, perPage)
ForPage(page, perPage) ==
    /\ LET r == forPage(page, perPage)
       IN  /\ qSkip' = r.skip
           /\ qLimit' = r.limit
           /\ fp' = [called |-> TRUE, page |-> page, perPage |-> perPage,
                     threw |-> r.threw, skipBefore |-> qSkip, limitBefore |-> qLimit]
    /\ UNCHANGED <<rows, pg>>

----------------------------------------------------------------------------
(* The collection the query reads *)

InsertRow == rows < MaxRows /\ rows' = rows + 1
DeleteRow == rows > 0 /\ rows' = rows - 1

----------------------------------------------------------------------------
(* Database.paginate *)

NoResult == [total |-> 0, perPage |-> 0, page |-> 0, lastPage |-> 0, data |-> <<>>]

NoPg == [pc |-> "idle", page |-> Undef, perPage |-> Undef,
         parsedPage |-> 0, parsedPerPage |-> 0, count |-> Undef,
         counts |-> 0, fetches |-> 0, fetchSkip |-> Undef, fetchLimit |-> Undef,
         fetchedAt |-> 0, result |-> NoResult]

PaginatePageArgs == PageArgs
PaginatePerPageArgs == PerPageArgs \cup {Str, Half(0), Half(2)}

\* paginate(page, perPage) up to its first yield: the arguments are coerced, the
\* page validated and the count query issued
\* the count query and the data query issued together
YieldCountAndFetch(call) == [call EXCEPT !.pc = "count", !.counts = 1, !.fetches = 1]

\* const count = yield countByQuery: the count query is issued and paginate
\* is suspended until it resolves
YieldCount(call) == [call EXCEPT !.pc = "count", !.counts = 1]

Paginate(page, perPage) ==
    /\ pg.pc \in {"idle", "done", "threw"}
    /\ LET parsedPerPage == IF toSafeInteger(perPage) = 0
                            THEN PaginateDefault ELSE toSafeInteger(perPage)
           parsedPage == toSafeInteger(page)
           call == [NoPg EXCEPT !.page = page, !.perPage = perPage,
                                !.parsedPage = parsedPage,
                                !.parsedPerPage = parsedPerPage]
       IN  IF ~validatePage(Num(parsedPage))
           THEN pg' = [call EXCEPT !.pc = "threw"]
           ELSE pg' = YieldCount(call)
    /\ UNCHANGED <<rows, qSkip, qLimit, fp>>

\* PaginateResult with page and perPage handed over in the wrong order
PaginateResultSwapped(count, page, perPage, results) ==
    [makePaginateMeta(parseInt(count), perPage, page) EXCEPT !.data = results]

\* the result paginate assembles after the fetch
PaginateResult(count, page, perPage, results) ==
    [makePaginateMeta(parseInt(count), page, perPage) EXCEPT !.data = results]

\* CountIsZero without the test for an absent count
CountIsZeroNumberOnly(count) == count.t = "int" /\ count.v = 0

\* !count || parseInt(count, 10) === 0
CountIsZero(count) == Falsy(count) \/ parseInt(count) = 0

\* the count query resolves with count and paginate runs on to its return or to
\* its second yield
CountResolved(count) ==
    /\ pg.pc = "count"
    /\ IF CountIsZero(count)
       THEN /\ pg' = [pg EXCEPT !.pc = "done", !.count = count,
                        !.result = makePaginateMeta(0, pg.parsedPage, pg.parsedPerPage)]
            /\ UNCHANGED <<qSkip, qLimit>>
       ELSE LET r == forPage(Num(pg.parsedPage), Num(pg.parsedPerPage))
            IN  /\ qSkip' = r.skip
                /\ qLimit' = r.limit
                /\ pg' = [pg EXCEPT !.pc = "fetch", !.count = count,
                            !.fetches = @ + 1,
                            !.fetchSkip = r.skip, !.fetchLimit = r.limit]
    /\ UNCHANGED <<rows, fp>>

\* what the count query can resolve with: the number of documents, or nothing
CountValues == {Num(rows), Undef}

\* the data query resolves and paginate returns
FetchResolved ==
    /\ pg.pc = "fetch"
    /\ LET results == Page(rows, pg.fetchSkip.v, pg.fetchLimit.v)
       IN  pg' = [pg EXCEPT !.pc = "done", !.fetchedAt = rows,
                     !.result = PaginateResult(pg.count, pg.parsedPage,
                                               pg.parsedPerPage, results)]
    /\ UNCHANGED <<rows, qSkip, qLimit, fp>>

PagerInit ==
    /\ rows \in 0..MaxRows
    /\ qSkip = Undef
    /\ qLimit = Undef
    /\ fp = NoFp
    /\ pg = NoPg

----------------------------------------------------------------------------
(* Database.chunk *)

Event(e, page, size) == [e |-> e, page |-> page, size |-> size]

NoCh == [pc |-> "idle", limit |-> Undef, page |-> 0, rows0 |-> 0,
         changed |-> FALSE, log |-> <<>>]

LimitArgs == {Undef} \cup {Num(n) : n \in 0..MaxArg}

\* chunk(limit, cb) up to its first yield: page = page || 1 and the fetch of
\* that page is issued
Chunk(limit) ==
    /\ ch.pc \in {"idle", "done"}
    /\ LET r == forPage(Num(1), limit)
       IN  /\ qSkip' = r.skip
           /\ qLimit' = r.limit
           /\ ch' = [NoCh EXCEPT !.pc = "fetch", !.limit = limit, !.page = 1,
                                 !.rows0 = rows,
                                 !.log = <<Event("fetch", 1, 0)>>]
    /\ UNCHANGED <<rows, fp, pg>>

\* ChunkHasResults with the array itself as the condition
ChunkHasResultsAlways(result) == TRUE

\* if (result.length)
ChunkHasResults(result) == Len(result) # 0

\* OnPage with the recursion started ahead of the callback
OnPagePrefetch(page, size) ==
    <<Event("fetch", page + 1, 0), Event("cbStart", page, size),
      Event("cbReturn", page, size)>>

\* what chunk does with a non-empty page, in order: cb(result) runs and
\* returns, page++, and the recursive chunk issues the next fetch
OnPage(page, size) ==
    <<Event("cbStart", page, size), Event("cbReturn", page, size),
      Event("fetch", page + 1, 0)>>

\* the fetch of the current page resolves and chunk runs on to its next yield
\* or to its end
ChunkFetched ==
    /\ ch.pc = "fetch"
    /\ LET result == Page(rows, qSkip.v, qLimit.v)
           got == Event("fetched", ch.page, Len(result))
       IN  IF ChunkHasResults(result)
           THEN LET r == forPage(Num(ch.page + 1), ch.limit)
                IN  /\ qSkip' = r.skip
                    /\ qLimit' = r.limit
                    /\ ch' = [ch EXCEPT !.page = @ + 1,
                                !.log = @ \o <<got>> \o OnPage(ch.page, Len(result))]
           ELSE /\ ch' = [ch EXCEPT !.pc = "done", !.log = Append(@, got)]
                /\ UNCHANGED <<qSkip, qLimit>>
    /\ UNCHANGED <<rows, fp, pg>>

\* the collection changes while a walk may be under way
ChunkInsertRow ==
    /\ InsertRow
    /\ ch' = [ch EXCEPT !.changed = @ \/ ch.pc = "fetch"]
    /\ UNCHANGED <<qSkip, qLimit, fp, pg>>

ChunkDeleteRow ==
    /\ DeleteRow
    /\ ch' = [ch EXCEPT !.changed = @ \/ ch.pc = "fetch"]
    /\ UNCHANGED <<qSkip, qLimit, fp, pg>>

ChunkInit == ch = NoCh

----------------------------------------------------------------------------
(* SchemaBuilder *)

IndexNames == {"i1", "i2"}
\* a name that is missing: undefined or ''
NoName == ""
\* the keys argument of index(): not given, {} and a mapping with one field
NoKeys == [given |-> FALSE, fields |-> {}]
KeysArgs == {NoKeys, [given |-> TRUE, fields |-> {}], [given |-> TRUE, fields |-> {"f"}]}

\* what the last step did when it was a call of index(): its arguments, whether
\* it threw, and the queues before it
NoIndexCall == [called |-> FALSE, name |-> NoName, keys |-> NoKeys, threw |-> FALSE,
                createBefore |-> <<>>, dropBefore |-> <<>>]

\* new SchemaBuilder(collection)
NoSb == [createIndexes |-> <<>>, dropIndexes |-> <<>>, pc |-> "idle", pos |-> 0,
         log |-> <<>>, last |-> NoIndexCall]

\* index() passes its argument checks: !name, then !keys || !_.size(keys)
IndexArgsValid(name, keys) == name # NoName /\ keys.given /\ keys.fields # {}

\* schemaBuilder.index(name, keys, options)
SbIndex(name, keys) ==
    /\ sb.pc = "idle"
    /\ Len(sb.createIndexes) < MaxQueue
    /\ LET seen == [called |-> TRUE, name |-> name, keys |-> keys,
                    threw |-> ~IndexArgsValid(name, keys),
                    createBefore |-> sb.createIndexes, dropBefore |-> sb.dropIndexes]
       IN  IF IndexArgsValid(name, keys)
           THEN sb' = [sb EXCEPT !.last = seen,
                          !.createIndexes = Append(@, [keys |-> keys, name |-> name])]
           ELSE sb' = [sb EXCEPT !.last = seen]

\* schemaBuilder.dropIndex(name)
SbDropIndex(name) ==
    /\ sb.pc = "idle"
    /\ Len(sb.dropIndexes) < MaxQueue
    /\ sb' = [sb EXCEPT !.dropIndexes = Append(@, name), !.last = NoIndexCall]

\* a call on the collection handle: which operation, for which queue entry,
\* and the index name it carries ("" when it carries none)
SbEvent(e, op, idx, ident) == [e |-> e, op |-> op, idx |-> idx, ident |-> ident]

\* createIndex(createIndex.keys, createIndex.options): options.name is the name
CreateCall(entry, i) == [op |-> "createIndex", idx |-> i, ident |-> entry.name]

\* dropIndex(dropIndex.keys, dropIndex.options): the queue entry is the name
\* itself, a string, and a string has neither property: both are undefined
DropCall(entry, j) == [op |-> "dropIndex", idx |-> j, ident |-> NoName]

\* BuildCalls with the drops ahead of the creates
BuildCallsDropsFirst(b) ==
    [j \in 1..Len(b.dropIndexes) |-> DropCall(b.dropIndexes[j], j)]
      \o [i \in 1..Len(b.createIndexes) |-> CreateCall(b.createIndexes[i], i)]

\* the calls build() makes, in order: the two for-in loops
BuildCalls(b) ==
    [i \in 1..Len(b.createIndexes) |-> CreateCall(b.createIndexes[i], i)]
      \o [j \in 1..Len(b.dropIndexes) |-> DropCall(b.dropIndexes[j], j)]

Issue(c) == SbEvent("issue", c.op, c.idx, c.ident)
Settled(c) == SbEvent("done", c.op, c.idx, c.ident)

\* build() up to its first yield
SbBuild ==
    /\ sb.pc = "idle"
    /\ IF BuildCalls(sb) = <<>>
       THEN sb' = [sb EXCEPT !.pc = "done", !.last = NoIndexCall]
       ELSE sb' = [sb EXCEPT !.pc = "building", !.pos = 1, !.last = NoIndexCall,
                      !.log = <<Issue(BuildCalls(sb)[1])>>]

\* the outstanding call resolves and build() runs on to its next yield or end
SbCallResolved ==
    /\ sb.pc = "building"
    /\ LET cs == BuildCalls(sb)
       IN  IF sb.pos = Len(cs)
           THEN sb' = [sb EXCEPT !.pc = "done", !.log = Append(@, Settled(cs[sb.pos]))]
           ELSE sb' = [sb EXCEPT !.pos = @ + 1,
                          !.log = @ \o <<Settled(cs[sb.pos]), Issue(cs[sb.pos + 1])>>]

\* the outstanding call rejects: the yield throws and build() ends there
SbCallRejected ==
    /\ sb.pc = "building"
    /\ sb' = [sb EXCEPT !.pc = "failed"]

SchemaInit == sb = NoSb

----------------------------------------------------------------------------
(* LucidMongo model instances, as EmbedsOne uses them *)

\* the value of an embedded field: nothing, or a serialized related instance
NoEmbed == [present |-> FALSE, id |-> Undef, body |-> 0]

\* relatedInstance.toJSON(): the instance's fields as a plain object
toJSON(rel) == [present |-> TRUE, id |-> rel.id, body |-> rel.body]

\* parent.isNew()
isNew(parent) == ~parent.exists

\* parent.set(key, value) for the toKey field
set(parent, value) == [parent EXCEPT !.embed = value]

\* parent.unset(key) for the toKey field
unset(parent) == [parent EXCEPT !.embed = NoEmbed]

----------------------------------------------------------------------------
(* EmbedsOne.save and EmbedsOne.delete *)

\* the parent's fromKey value: missing, or an identifier
ParentKeys == {Undef, Num(1)}
\* the fromKey value of an instance passed to save: missing, present but
\* falsy, or an identifier
RelatedIds == {Undef, Num(0), Num(7)}
\* instances passed to save(); related says whether it is instanceof this.related
RelatedArgs == [related : BOOLEAN, id : RelatedIds, body : {1, 2}]
NoRelated == [related |-> FALSE, id |-> Undef, body |-> 0]

Parents == [exists : BOOLEAN, key : ParentKeys, embed : {NoEmbed}, other : {5}]

\* uuid.v4(): the n-th identifier generated, different from every other one
uuid(n) == Num(100 + n)

NoReturn == [from |-> "none", rel |-> NoRelated, result |-> FALSE]

NoEm(parent) ==
    [parent |-> parent, rel |-> NoRelated, op |-> "none", pc |-> "idle",
     err |-> "", warned |-> 0, uuids |-> 0, writes |-> 0,
     persists |-> <<>>, returned |-> NoReturn,
     parentBefore |-> parent, relBefore |-> NoRelated, persistsBefore |-> 0]

\* SaveRejects without the test of the parent
SaveRejectsTypeOnly(parent, rel) ==
    IF ~rel.related THEN "relationMisMatch" ELSE ""

\* the checks save() makes first: the error it throws, "" when it goes on
SaveRejects(parent, rel) ==
    IF ~rel.related THEN "relationMisMatch"
    ELSE IF isNew(parent) THEN "unSavedTarget"
    ELSE ""

\* WithIdentifier that overwrites the identifier the instance has
WithIdentifierAlways(rel, fresh) == [rel EXCEPT !.id = fresh]

\* if (!relatedInstance[this.fromKey]) relatedInstance[this.fromKey] = uuid.v4()
WithIdentifier(rel, fresh) ==
    IF Falsy(rel.id) THEN [rel EXCEPT !.id = fresh] ELSE rel

Begin(op, rel) ==
    [em EXCEPT !.op = op, !.rel = rel, !.err = "", !.warned = 0,
               !.writes = @ + 1, !.returned = NoReturn,
               !.parentBefore = em.parent, !.relBefore = rel,
               !.persistsBefore = Len(em.persists)]

\* relation.save(relatedInstance), up to its yield
EmSave(rel) ==
    /\ em.pc \in {"idle", "done", "threw"}
    /\ em.writes < MaxWrites
    /\ LET e == SaveRejects(em.parent, rel)
           fresh == uuid(em.uuids + 1)
           withId == WithIdentifier(rel, fresh)
           written == set(em.parent, toJSON(withId))
       IN  IF e # ""
           THEN em' = [Begin("save", rel) EXCEPT !.pc = "threw", !.err = e]
           ELSE em' = [Begin("save", rel) EXCEPT
                          !.pc = "persisting",
                          !.warned = IF Falsy(em.parent.key) THEN 1 ELSE 0,
                          !.uuids = IF withId = rel THEN @ ELSE @ + 1,
                          !.rel = withId,
                          !.parent = written,
                          !.persists = Append(@, written)]

\* DeleteWrites that leaves the embedded field as it is
DeleteWritesNothing(parent) == parent

\* this.parent.unset(this.toKey)
DeleteWrites(parent) == unset(parent)

\* relation.delete(), up to its yield
EmDelete ==
    /\ em.pc \in {"idle", "done", "threw"}
    /\ em.writes < MaxWrites
    /\ IF isNew(em.parent)
       THEN em' = [Begin("delete", NoRelated) EXCEPT !.pc = "threw",
                                                      !.err = "unSavedTarget"]
       ELSE em' = [Begin("delete", NoRelated) EXCEPT
                      !.pc = "persisting",
                      !.parent = DeleteWrites(em.parent),
                      !.persists = Append(@, DeleteWrites(em.parent))]

\* this.parent.save() resolves with result: save() returns the instance it was
\* given, delete() returns result
EmPersisted(result) ==
    /\ em.pc = "persisting"
    /\ em' = [em EXCEPT !.pc = "done",
                 !.returned = IF em.op = "save"
                              THEN [from |-> "relatedInstance", rel |-> em.rel,
                                    result |-> FALSE]
                              ELSE [from |-> "parent.save", rel |-> NoRelated,
                                    result |-> result]]

\* this.parent.save() rejects: the yield throws
EmPersistRejected ==
    /\ em.pc = "persisting"
    /\ em' = [em EXCEPT !.pc = "threw", !.err = "persistFailed"]

EmbedInit == em \in {NoEm(p) : p \in Parents}
EmbedIdle == em = NoEm([exists |-> FALSE, key |-> Undef, embed |-> NoEmbed, other |-> 5])

----------------------------------------------------------------------------
(* EmbedsOne.eagerLoad and eagerLoadSingle *)

\* Objects are referred to by number: row i's embedded object, when the row has
\* one, is object i; 0 is undefined. eg.heap gives each object's content.
NoRef == 0
RowKeys == {1, 2}
Contents == {1, 2}

Row(key, embed) == [key |-> key, embed |-> embed]

\* the result sets tried: up to MaxParents rows, keys possibly repeated, the
\* toKey field possibly missing
ResultSets ==
    UNION {[1..n -> [key : RowKeys, has : BOOLEAN]] : n \in 0..MaxParents}

\* new RelatedModel(), before its fields are assigned
Instance(attributes, exists, original) ==
    [attributes |-> attributes, exists |-> exists, original |-> original]

NoMap == [k \in {} |-> Instance(NoRef, FALSE, NoRef)]

\* cloneDeep that hands back the object it was given
cloneDeepSameObject(ref, fresh) == ref

\* _.cloneDeep(modelInstance.attributes): a new object with the same content,
\* undefined for undefined
cloneDeep(ref, fresh) == IF ref = NoRef THEN NoRef ELSE fresh

\* the last row carrying key k: _.keyBy keeps the last element for a key
LastWith(results, k) ==
    CHOOSE i \in 1..Len(results) :
        /\ results[i].key = k
        /\ \A j \in (i + 1)..Len(results) : results[j].key # k

\* the object a clone made for row i gets
CloneOf(results, i) == Len(results) + i

\* _(results).keyBy(this.fromKey).mapValues(...).value()
KeyByMapValues(results) ==
    [k \in {results[i].key : i \in 1..Len(results)} |->
        LET i == LastWith(results, k)
        IN  Instance(results[i].embed, TRUE,
                     cloneDeep(results[i].embed, CloneOf(results, i)))]

\* the heap once the clones in map exist
WithClones(heap, map) ==
    [r \in DOMAIN heap |->
        IF \E k \in DOMAIN map : map[k].original = r /\ map[k].attributes # r
        THEN heap[map[CHOOSE k \in DOMAIN map : map[k].original = r].attributes]
        ELSE heap[r]]

NoEg(results, heap) ==
    [results |-> results, heap |-> heap, heapAtLoad |-> heap, op |-> "none",
     scope |-> FALSE, scopeCalls |-> 0, queries |-> 0, map |-> NoMap]

\* relation.eagerLoad(values, scopeMethod, results); scope says whether
\* scopeMethod is a function
EagerLoad(scope) ==
    /\ eg.op = "none"
    /\ LET map == KeyByMapValues(eg.results)
           heap == WithClones(eg.heap, map)
       IN  eg' = [eg EXCEPT !.op = "eagerLoad", !.scope = scope,
                     !.scopeCalls = IF scope THEN 1 ELSE 0,
                     !.map = map, !.heap = heap, !.heapAtLoad = heap]

\* relation.eagerLoadSingle(value, scopeMethod, result) for row i
EagerLoadSingle(value, scope, i) ==
    /\ eg.op = "none"
    /\ i \in 1..Len(eg.results)
    /\ LET map == [k \in {value} |->
                      Instance(eg.results[i].embed, TRUE,
                               cloneDeep(eg.results[i].embed, CloneOf(eg.results, i)))]
           heap == WithClones(eg.heap, map)
       IN  eg' = [eg EXCEPT !.op = "eagerLoadSingle", !.scope = scope,
                     !.scopeCalls = IF scope THEN 1 ELSE 0,
                     !.map = map, !.heap = heap, !.heapAtLoad = heap]

\* the caller changes the attributes of the instance loaded for key k
ChangeAttributes(k, content) ==
    /\ eg.op # "none"
    /\ k \in DOMAIN eg.map
    /\ eg.map[k].attributes # NoRef
    /\ eg.heap[eg.map[k].attributes] # content
    /\ eg' = [eg EXCEPT !.heap[eg.map[k].attributes] = content]

\* the rows of a result set and the heap holding their embedded objects
RowsOf(rs) == [i \in 1..Len(rs) |-> Row(rs[i].key, IF rs[i].has THEN i ELSE NoRef)]
HeapOf(rs, content) ==
    [r \in 1..(2 * Len(rs)) |-> IF r <= Len(rs) /\ rs[r].has THEN content[r] ELSE 0]

EagerInit ==
    \E rs \in ResultSets :
        \E content \in [1..Len(rs) -> Contents] :
            eg = NoEg(RowsOf(rs), HeapOf(rs, content))

EagerIdle == eg = NoEg(<<>>, <<>>)

----------------------------------------------------------------------------
(* EagerLoader.load, the EagerLoad export of Relations/index.js *)

RelationNames == {"profile", "posts"}

\* the relationNames argument: each name at most once
RelationLists ==
    {<<>>} \cup {<<r>> : r \in RelationNames}
           \cup {<<r, q>> : <<r, q>> \in {x \in RelationNames \X RelationNames : x[1] # x[2]}}

NoLd ==
    [pc |-> "idle", parents |-> 0, requested |-> <<>>, pos |-> 0,
     eagerLoads |-> [r \in RelationNames |-> 0],
     attached |-> [r \in RelationNames |-> {}]]

\* one eagerLoad call per parent row
eagerLoadCallsPerRow(parents) == parents

\* the eagerLoad calls load makes for one relation over a result set of the
\* given size
eagerLoadCalls(parents) == 1

\* load moves on to the relation at position pos, or finishes
LoadRelation(l, pos) ==
    IF pos > Len(l.requested)
    THEN [l EXCEPT !.pc = "done", !.pos = Len(l.requested)]
    ELSE [l EXCEPT !.pc = "loading", !.pos = pos,
                   !.eagerLoads[l.requested[pos]] = @ + eagerLoadCalls(l.parents)]

\* eagerLoader.load(resultSet, relationNames, scopeMap)
LdLoad(parents, relationNames) ==
    /\ ld.pc = "idle"
    /\ ld' = LoadRelation([ld EXCEPT !.parents = parents, !.requested = relationNames], 1)

\* the relation's eagerLoad resolves with data for the parents in matching:
\* all of it is attached, then the next relation is loaded
LdRelationLoaded(matching) ==
    /\ ld.pc = "loading"
    /\ matching \subseteq 1..ld.parents
    /\ ld' = LoadRelation([ld EXCEPT !.attached[ld.requested[ld.pos]] = matching],
                          ld.pos + 1)

\* the relation's eagerLoad rejects: load rejects, nothing more is attached
LdRelationFailed ==
    /\ ld.pc = "loading"
    /\ ld' = [ld EXCEPT !.pc = "failed"]

LoaderInit == ld = NoLd

RestIdle == SchemaInit /\ EmbedIdle /\ EagerIdle /\ LoaderInit

----------------------------------------------------------------------------
(* Specifications *)

PagerIdle == rows = 0 /\ qSkip = Undef /\ qLimit = Undef /\ fp = NoFp /\ pg = NoPg

Init == PoolInit /\ PagerIdle /\ ChunkInit /\ RestIdle

Next ==
    \/ \E key \in Keys : Connection(key) /\ UNCHANGED <<pagerVars, chunkVars, restVars>>
    \/ \E i \in HandleIds : ConnectFulfilled(i) /\ UNCHANGED <<pagerVars, chunkVars, restVars>>
    \/ \E i \in HandleIds : ConnectRejected(i) /\ UNCHANGED <<pagerVars, chunkVars, restVars>>
    \/ \E key \in Keys \cup {NoKey} : Close(key) /\ UNCHANGED <<pagerVars, chunkVars, restVars>>
    \/ \E key \in Keys : Resolve(key) /\ UNCHANGED <<pagerVars, chunkVars, restVars>>

Spec == Init /\ [][Next]_vars

\* the pool with nothing configured and nothing opened
PoolIdle ==
    /\ cfgDefault = "" /\ cfgEntries = {}
    /\ connectionPools = [n \in Names |-> 0]
    /\ opened = 0
    /\ handleName = [h \in HandleIds |-> ""]
    /\ closeCount = [h \in HandleIds |-> 0]
    /\ calls = <<>> /\ opening = {} /\ overtaken = {} /\ ev = NoEv

\* direct forPage calls on one query object
InitForPage == PoolIdle /\ PagerInit /\ rows = 0 /\ ChunkInit /\ RestIdle

NextForPage ==
    \E page \in PageArgs, perPage \in PerPageArgs :
        ForPage(page, perPage) /\ UNCHANGED <<poolVars, chunkVars, restVars>>

SpecForPage == InitForPage /\ [][NextForPage]_vars

\* paginate calls on one query object while documents come and go
InitPager == PoolIdle /\ PagerInit /\ ChunkInit /\ RestIdle

NextPager ==
    \/ \E page \in PaginatePageArgs, perPage \in PaginatePerPageArgs :
          Paginate(page, perPage) /\ UNCHANGED <<poolVars, chunkVars, restVars>>
    \/ \E count \in CountValues : CountResolved(count) /\ UNCHANGED <<poolVars, chunkVars, restVars>>
    \/ FetchResolved /\ UNCHANGED <<poolVars, chunkVars, restVars>>
    \/ InsertRow /\ UNCHANGED <<qSkip, qLimit, fp, pg, poolVars, chunkVars, restVars>>
    \/ DeleteRow /\ UNCHANGED <<qSkip, qLimit, fp, pg, poolVars, chunkVars, restVars>>

SpecPager == InitPager /\ [][NextPager]_vars

\* chunk walks on one query object while documents come and go
InitChunk == PoolIdle /\ PagerInit /\ ChunkInit /\ RestIdle

NextChunk ==
    \/ \E limit \in LimitArgs : Chunk(limit) /\ UNCHANGED <<poolVars, restVars>>
    \/ ChunkFetched /\ UNCHANGED <<poolVars, restVars>>
    \/ ChunkInsertRow /\ UNCHANGED <<poolVars, restVars>>
    \/ ChunkDeleteRow /\ UNCHANGED <<poolVars, restVars>>

SpecChunk == InitChunk /\ [][NextChunk]_vars

\* one SchemaBuilder: declarations are queued, then build() runs
InitSchema == PoolIdle /\ PagerIdle /\ ChunkInit /\ SchemaInit /\ EmbedIdle /\ EagerIdle /\ LoaderInit

NextSchema ==
    \/ \E name \in IndexNames \cup {NoName}, keys \in KeysArgs :
          SbIndex(name, keys) /\ UNCHANGED <<poolVars, pagerVars, chunkVars, embedVars, eagerVars, loaderVars>>
    \/ \E name \in IndexNames : SbDropIndex(name) /\ UNCHANGED <<poolVars, pagerVars, chunkVars, embedVars, eagerVars, loaderVars>>
    \/ SbBuild /\ UNCHANGED <<poolVars, pagerVars, chunkVars, embedVars, eagerVars, loaderVars>>
    \/ SbCallResolved /\ UNCHANGED <<poolVars, pagerVars, chunkVars, embedVars, eagerVars, loaderVars>>
    \/ SbCallRejected /\ UNCHANGED <<poolVars, pagerVars, chunkVars, embedVars, eagerVars, loaderVars>>

SpecSchema == InitSchema /\ [][NextSchema]_vars

\* save() and delete() calls on one EmbedsOne relation
InitEmbed == PoolIdle /\ PagerIdle /\ ChunkInit /\ SchemaInit /\ EmbedInit /\ EagerIdle /\ LoaderInit

NextEmbed ==
    \/ \E rel \in RelatedArgs : EmSave(rel) /\ UNCHANGED <<poolVars, pagerVars, chunkVars, schemaVars, eagerVars, loaderVars>>
    \/ EmDelete /\ UNCHANGED <<poolVars, pagerVars, chunkVars, schemaVars, eagerVars, loaderVars>>
    \/ \E result \in BOOLEAN : EmPersisted(result) /\ UNCHANGED <<poolVars, pagerVars, chunkVars, schemaVars, eagerVars, loaderVars>>
    \/ EmPersistRejected /\ UNCHANGED <<poolVars, pagerVars, chunkVars, schemaVars, eagerVars, loaderVars>>

SpecEmbed == InitEmbed /\ [][NextEmbed]_vars

\* one eager load over a result set, and changes to what it returned
InitEagerLoad == PoolIdle /\ PagerIdle /\ ChunkInit /\ SchemaInit /\ EmbedIdle /\ EagerInit /\ LoaderInit

NextEagerLoad ==
    \/ \E scope \in BOOLEAN :
          EagerLoad(scope) /\ UNCHANGED <<poolVars, pagerVars, chunkVars, schemaVars, embedVars, loaderVars>>
    \/ \E value \in RowKeys, scope \in BOOLEAN, i \in 1..MaxParents :
          EagerLoadSingle(value, scope, i) /\ UNCHANGED <<poolVars, pagerVars, chunkVars, schemaVars, embedVars, loaderVars>>
    \/ \E k \in RowKeys, content \in Contents :
          ChangeAttributes(k, content) /\ UNCHANGED <<poolVars, pagerVars, chunkVars, schemaVars, embedVars, loaderVars>>

SpecEagerLoad == InitEagerLoad /\ [][NextEagerLoad]_vars

\* one EagerLoader.load call over a result set
InitLoader == PoolIdle /\ PagerIdle /\ ChunkInit /\ SchemaInit /\ EmbedIdle /\ EagerIdle /\ LoaderInit

NextLoader ==
    \/ \E parents \in 0..MaxParents, relationNames \in RelationLists :
          LdLoad(parents, relationNames)
          /\ UNCHANGED <<poolVars, pagerVars, chunkVars, schemaVars, embedVars, eagerVars>>
    \/ \E matching \in SUBSET (1..MaxParents) :
          LdRelationLoaded(matching)
          /\ UNCHANGED <<poolVars, pagerVars, chunkVars, schemaVars, embedVars, eagerVars>>
    \/ LdRelationFailed
          /\ UNCHANGED <<poolVars, pagerVars, chunkVars, schemaVars, embedVars, eagerVars>>

SpecLoader == InitLoader /\ [][NextLoader]_vars

----------------------------------------------------------------------------
(* Claims about the connection pool, checked under Spec *)

LiveHandles(n) == {h \in 1..opened : handleName[h] = n /\ closeCount[h] = 0}

\* C1: for every name and every interleaving of connection(name) calls, at most
\* one handle is open for the name while it is not closed, and a request for a
\* pooled name gets the pooled handle and starts no open.
C1_AtMostOneLiveHandlePerName ==
    /\ \A n \in Names : Cardinality(LiveHandles(n)) <= 1
    /\ (ev.op = "connection" /\ ~ev.threw /\ Pooled(ev.poolBefore, ev.value))
          => /\ calls[ev.call].status = "resolved"
             /\ calls[ev.call].handle = ev.poolBefore[ev.value]
             /\ opening = ev.openingBefore

\* C2: close(key) with a key whose resolved name is not in the pool changes
\* nothing: no handle is closed and every pool entry stays.
C2_CloseAbsentKeyIsNoOp ==
    (ev.op = "close" /\ ev.key # NoKey /\ ~ev.threw /\ ~Pooled(ev.poolBefore, ev.value))
        => /\ connectionPools = ev.poolBefore
           /\ closeCount = ev.closedBefore

PooledHandles(pool) == {pool[n] : n \in Names} \ {0}

\* C3: close(key) with a pooled key closes that entry's handle once and removes
\* that entry only; close() closes every pooled handle once and empties the
\* pool; no handle is ever closed twice.
C3_CloseClosesWhatItNames ==
    /\ (ev.op = "close" /\ ev.key # NoKey /\ ~ev.threw /\ Pooled(ev.poolBefore, ev.value))
          => /\ connectionPools = [ev.poolBefore EXCEPT ![ev.value] = 0]
             /\ closeCount = [ev.closedBefore EXCEPT ![ev.poolBefore[ev.value]] = @ + 1]
    /\ (ev.op = "close" /\ ev.key = NoKey)
          => /\ \A n \in Names : connectionPools[n] = 0
             /\ \A h \in HandleIds :
                   closeCount[h] = ev.closedBefore[h]
                        + (IF h \in PooledHandles(ev.poolBefore) THEN 1 ELSE 0)
    /\ \A h \in HandleIds : closeCount[h] <= 1

\* a close(key) has just closed one of two pooled connections
C3_Witness ==
    /\ ev.op = "close" /\ ev.key # NoKey /\ ~ev.threw
    /\ Pooled(ev.poolBefore, ev.value)
    /\ \E n \in Names : n # ev.value /\ Pooled(ev.poolBefore, n) /\ Pooled(connectionPools, n)

\* C4: resolve("default") is the configured default name, or a configuration
\* error when none is configured; any other key comes back unchanged and the
\* configuration is not read.
C4_ResolveDefaultOrUnchanged ==
    ev.op = "resolve" =>
        IF ev.key = "default"
        THEN IF cfgDefault # ""
             THEN ~ev.threw /\ ev.value = cfgDefault
             ELSE ev.threw
        ELSE ~ev.threw /\ ev.value = ev.key /\ ev.reads = <<>>

\* resolve("default") has returned the configured name
C4_Witness ==
    ev.op = "resolve" /\ ev.key = "default" /\ cfgDefault # "" /\ ev.value = cfgDefault

\* C5: connection(name) for an unpooled name without a configuration entry is
\* rejected with the configuration error, starts no open and leaves the pool as
\* it was; the rejected call never gets a handle.
C5_MissingConfigRejects ==
    /\ (ev.op = "connection" /\ ~ev.threw /\ ~Pooled(ev.poolBefore, ev.value)
            /\ ev.value \notin cfgEntries)
          => /\ calls[ev.call].status = "rejected"
             /\ calls[ev.call].err = "missingConfig"
             /\ opening = ev.openingBefore
             /\ connectionPools = ev.poolBefore
             /\ closeCount = ev.closedBefore
    /\ \A i \in 1..Len(calls) :
          (calls[i].name # "" /\ calls[i].name \notin cfgEntries)
              => i \notin opening /\ calls[i].handle = 0 /\ calls[i].status = "rejected"

\* a connection call for an unconfigured, unpooled name has just been rejected
C5_Witness ==
    /\ ev.op = "connection" /\ ~ev.threw /\ ev.value \notin cfgEntries
    /\ ~Pooled(ev.poolBefore, ev.value)
    /\ calls[ev.call].status = "rejected"

----------------------------------------------------------------------------
(* Claims about forPage, checked under SpecForPage *)

PositiveInteger(x) == x.t = "int" /\ x.v >= 1

\* what forPage must leave on the query when perPage counts as pp
ForPageOutcome(pp) ==
    IF PositiveInteger(fp.page)
    THEN /\ ~fp.threw
         /\ qSkip = Num((fp.page.v - 1) * pp)
         /\ qLimit = Num(pp)
    ELSE /\ fp.threw
         /\ qSkip = fp.skipBefore
         /\ qLimit = fp.limitBefore

\* C6 as stated: forPage(page, perPage) sets skip (page-1)*perPage and limit
\* perPage for every positive integer page, perPage being 20 when omitted, and
\* fails without touching skip and limit for any other page.
C6_ForPageAsStated ==
    fp.called =>
        ForPageOutcome(IF fp.perPage = Undef THEN 20 ELSE fp.perPage.v)

\* C6 amended: the same, perPage being 20 when it is omitted or 0.
C6_ForPageSkipLimit ==
    fp.called =>
        ForPageOutcome(IF fp.perPage = Undef \/ fp.perPage = Num(0)
                       THEN 20 ELSE fp.perPage.v)

\* forPage(3, 2) has set skip 4 and limit 2
C6_Witness ==
    /\ fp.called /\ fp.page = Num(3) /\ fp.perPage = Num(2)
    /\ qSkip = Num(4) /\ qLimit = Num(2)

----------------------------------------------------------------------------
(* Claims about paginate, checked under SpecPager *)

\* the perPage paginate works with: the coerced argument, 20 when that is 0
CoercedPerPage(x) == IF toSafeInteger(x) = 0 THEN 20 ELSE toSafeInteger(x)

PaginateOutcome(pp) ==
    LET r == pg.result IN
    /\ r.perPage = pp
    /\ r.page = toSafeInteger(pg.page)
    /\ r.total = parseInt(pg.count)
    /\ r.lastPage = Max(1, Ceil(r.total, r.perPage))
    /\ IF pg.fetches = 0
       THEN r.data = <<>>
       ELSE /\ pg.fetches = 1
            /\ pg.fetchSkip = Num((r.page - 1) * r.perPage)
            /\ pg.fetchLimit = Num(r.perPage)
            /\ r.data = Page(pg.fetchedAt, (r.page - 1) * r.perPage, r.perPage)

\* C8 as stated: every paginate result has lastPage = max(1, ceil(total /
\* perPage)), total the count query's value, page and perPage the integer-coerced
\* arguments (perPage 20 when omitted) and data the rows fetched for that page.
C8_PaginateAsStated ==
    pg.pc = "done" =>
        PaginateOutcome(IF pg.perPage = Undef THEN 20 ELSE toSafeInteger(pg.perPage))

\* C8 amended: the same, perPage being 20 when the argument is omitted or is
\* coerced to 0.
C8_PaginateResult ==
    pg.pc = "done" => PaginateOutcome(CoercedPerPage(pg.perPage))

\* paginate(2, 2) over five documents has returned lastPage 3 and rows 3, 4
C8_Witness ==
    /\ pg.pc = "done" /\ pg.page = Num(2) /\ pg.perPage = Num(2)
    /\ pg.result.total = 5 /\ pg.result.lastPage = 3 /\ pg.result.data = <<3, 4>>

----------------------------------------------------------------------------
(* Claims about chunk, checked under SpecChunk *)

Only(e, log) == SelectSeq(log, LAMBDA x : x.e = e)

\* C9: chunk(limit, cb) over a fixed collection of N rows calls cb ceil(N/limit)
\* times, on pages 1, 2, ... in order, each page non-empty and of size limit
\* except possibly the last, never with an empty page, and ends after the first
\* empty page is fetched; over 0 rows cb is not called.
C9_ChunkCallsPerPage ==
    LET cbs == Only("cbStart", ch.log)
        got == Only("fetched", ch.log)
    IN  /\ \A i \in 1..Len(cbs) : cbs[i].page = i /\ cbs[i].size >= 1
        /\ (~ch.changed /\ PositiveInteger(ch.limit))
              => /\ Len(cbs) <= Ceil(ch.rows0, ch.limit.v)
                 /\ \A i \in 1..Len(cbs) :
                       cbs[i].size = IF i * ch.limit.v <= ch.rows0
                                     THEN ch.limit.v
                                     ELSE ch.rows0 - (i - 1) * ch.limit.v
                 /\ \A i \in 1..Len(got) : got[i].size = 0 => ch.pc = "done" /\ i = Len(got)
                 /\ ch.pc = "done"
                       => /\ Len(cbs) = Ceil(ch.rows0, ch.limit.v)
                          /\ Len(got) = Len(cbs) + 1
                          /\ ch.log[Len(ch.log)] = Event("fetched", Len(cbs) + 1, 0)

\* chunk(2, cb) over five fixed rows has ended after three calls of cb
C9_Witness ==
    /\ ch.pc = "done" /\ ~ch.changed /\ ch.limit = Num(2) /\ ch.rows0 = 5
    /\ Len(Only("cbStart", ch.log)) = 3

\* C10: in a chunk walk the fetch of page N+1 is issued only after the callback
\* for page N has returned, and at most one fetch is outstanding at any time.
C10_ChunkFetchesInSequence ==
    /\ \A i \in 1..Len(ch.log) :
          (ch.log[i].e = "fetch" /\ ch.log[i].page > 1)
              => \E j \in 1..(i - 1) :
                    ch.log[j] .e = "cbReturn" /\ ch.log[j].page = ch.log[i].page - 1
    /\ \A i \in 1..Len(ch.log) :
          LET pre == SubSeq(ch.log, 1, i)
          IN  Len(Only("fetch", pre)) - Len(Only("fetched", pre)) \in {0, 1}

\* the fetch of page 2 has been issued
C10_Witness ==
    \E i \in 1..Len(ch.log) : ch.log[i].e = "fetch" /\ ch.log[i].page = 2

----------------------------------------------------------------------------
(* Claims about SchemaBuilder, checked under SpecSchema *)

\* the calls issued so far, without their index names
IssuedOps(log) ==
    LET is == Only("issue", log)
    IN  [k \in 1..Len(is) |-> <<is[k].op, is[k].idx>>]

\* one create per queued declaration in queue order, then one drop per queued
\* drop in queue order
ExpectedOps(b) ==
    [i \in 1..Len(b.createIndexes) |-> <<"createIndex", i>>]
      \o [j \in 1..Len(b.dropIndexes) |-> <<"dropIndex", j>>]

IsPrefix(p, q) == Len(p) <= Len(q) /\ SubSeq(q, 1, Len(p)) = p

\* C11: build() issues one create per queued declaration in queue order and
\* only then one drop per queued drop in queue order; no drop precedes the last
\* create and each call is issued only after the one before it has completed.
C11_BuildCreatesThenDrops ==
    /\ IsPrefix(IssuedOps(sb.log), ExpectedOps(sb))
    /\ sb.pc = "done" => IssuedOps(sb.log) = ExpectedOps(sb)
    /\ \A k \in 1..Len(sb.log) :
          LET pre == SubSeq(sb.log, 1, k)
          IN  Len(Only("issue", pre)) - Len(Only("done", pre)) \in {0, 1}
    /\ \A k \in 1..Len(sb.log) :
          (sb.log[k].e = "issue" /\ sb.log[k].op = "dropIndex")
              => \A i \in 1..Len(sb.createIndexes) :
                    \E d \in 1..(k - 1) :
                        /\ sb.log[d].e = "done"
                        /\ sb.log[d].op = "createIndex"
                        /\ sb.log[d].idx = i

\* a build() of two declarations and two drops has completed
C11_Witness ==
    /\ sb.pc = "done"
    /\ Len(sb.createIndexes) = 2 /\ Len(sb.dropIndexes) = 2
    /\ Len(Only("issue", sb.log)) = 4

\* C19: every drop build() issues names the index that dropIndex(name) queued;
\* index() with a missing name or with missing or empty keys fails and leaves
\* both queues as they were.
C19_DropNamesTheQueuedIndex ==
    /\ \A k \in 1..Len(sb.log) :
          (sb.log[k].e = "issue" /\ sb.log[k].op = "dropIndex")
              => sb.log[k].ident = sb.dropIndexes[sb.log[k].idx]
    /\ (sb.last.called
          /\ (sb.last.name = NoName \/ ~sb.last.keys.given \/ sb.last.keys.fields = {}))
          => /\ sb.last.threw
             /\ sb.createIndexes = sb.last.createBefore
             /\ sb.dropIndexes = sb.last.dropBefore

----------------------------------------------------------------------------
(* Claims about EmbedsOne.save and EmbedsOne.delete, checked under SpecEmbed *)

\* C12: save() with an instance of the wrong type or with a parent never
\* persisted, and delete() with a parent never persisted, throw before anything
\* is changed: the parent and the instance are as before (no identifier was
\* assigned) and no persist of the parent was issued.
C12_WriteErrorsBeforeMutation ==
    /\ (em.op = "save" /\ (~em.relBefore.related \/ ~em.parentBefore.exists))
          => /\ em.pc = "threw"
             /\ em.err = IF ~em.relBefore.related
                         THEN "relationMisMatch" ELSE "unSavedTarget"
             /\ em.parent = em.parentBefore
             /\ em.rel = em.relBefore
             /\ Len(em.persists) = em.persistsBefore
    /\ (em.op = "delete" /\ ~em.parentBefore.exists)
          => /\ em.pc = "threw"
             /\ em.err = "unSavedTarget"
             /\ em.parent = em.parentBefore
             /\ Len(em.persists) = em.persistsBefore

\* save() of a well-typed instance without identifier into a parent never
\* persisted has thrown
C12_Witness ==
    /\ em.op = "save" /\ em.relBefore.related /\ em.relBefore.id = Undef
    /\ ~em.parentBefore.exists /\ em.pc = "threw" /\ em.err = "unSavedTarget"

\* what save() on a persisted parent with an instance of the related type must
\* have done, the instance counting as having no identifier when missing holds
SaveOutcome(missing) ==
    (em.op = "save" /\ em.relBefore.related /\ em.parentBefore.exists)
        => /\ em.err \in {"", "persistFailed"}
           /\ IF missing
              THEN /\ em.rel.id \notin RelatedIds
                   /\ ~Falsy(em.rel.id)
                   /\ em.rel.id # em.parentBefore.embed.id
              ELSE em.rel.id = em.relBefore.id
           /\ em.rel.body = em.relBefore.body
           /\ em.parent = [em.parentBefore EXCEPT
                              !.embed = [present |-> TRUE, id |-> em.rel.id,
                                         body |-> em.rel.body]]
           /\ Len(em.persists) = em.persistsBefore + 1
           /\ em.persists[Len(em.persists)] = em.parent
           /\ em.pc = "done"
                 => em.returned = [from |-> "relatedInstance", rel |-> em.rel,
                                   result |-> FALSE]
           /\ em.warned = IF em.parentBefore.key \in {Undef, Num(0)} THEN 1 ELSE 0

\* C13 as stated: save() on a persisted parent gives an instance without a
\* fromKey value a new identifier and never replaces an existing value; the
\* parent's toKey field is the instance's serialized form with that
\* identifier; the parent is persisted once, after the field is written; the
\* instance is returned; a falsy fromKey of the parent only warns.
C13_SaveAsStated == SaveOutcome(em.relBefore.id = Undef)

\* C13 amended: the same, a fromKey value that is present but falsy (0, '')
\* counting as no value: it too is replaced by a new identifier.
C13_SaveEmbedsSerializedInstance ==
    SaveOutcome(em.relBefore.id = Undef \/ em.relBefore.id = Num(0))

\* save() of an instance without identifier into a persisted parent whose own
\* fromKey is missing has completed
C13_Witness ==
    /\ em.op = "save" /\ em.pc = "done" /\ em.relBefore.id = Undef
    /\ em.parentBefore.exists /\ em.parentBefore.key = Undef
    /\ em.parent.embed.present /\ em.parent.embed.id = em.rel.id
    /\ em.warned = 1

\* C14: delete() on a persisted parent clears the toKey field and nothing
\* else, persists the parent once after that and returns what the persist
\* returned; on a parent never persisted it fails with the unsaved-target error.
C14_DeleteClearsAndPersists ==
    em.op = "delete" =>
        IF em.parentBefore.exists
        THEN /\ em.err \in {"", "persistFailed"}
             /\ em.parent = [em.parentBefore EXCEPT !.embed = NoEmbed]
             /\ Len(em.persists) = em.persistsBefore + 1
             /\ em.persists[Len(em.persists)] = em.parent
             /\ em.pc = "done" => em.returned.from = "parent.save"
        ELSE em.pc = "threw" /\ em.err = "unSavedTarget"

\* delete() on a parent holding an embedded instance has completed
C14_Witness ==
    /\ em.op = "delete" /\ em.pc = "done"
    /\ em.parentBefore.embed.present /\ ~em.parent.embed.present

----------------------------------------------------------------------------
(* Claims about EmbedsOne.eagerLoad, checked under SpecEagerLoad *)

\* C16: eagerLoad returns one entry per fromKey value occurring in results and
\* no other; each entry is marked exists = true, its attributes are the toKey
\* field of a parent carrying the key, and its original equals the attributes
\* as loaded but is a copy that later changes of the attributes do not reach;
\* no query is issued, and the mapping is the same with or without a scope
\* callback.
C16_EagerLoadMapsEmbeddedFields ==
    eg.op = "eagerLoad" =>
        /\ DOMAIN eg.map = {eg.results[i].key : i \in 1..Len(eg.results)}
        /\ \A k \in DOMAIN eg.map :
              /\ eg.map[k].exists
              /\ \E i \in 1..Len(eg.results) :
                    eg.results[i].key = k /\ eg.map[k].attributes = eg.results[i].embed
              /\ IF eg.map[k].attributes = NoRef
                 THEN eg.map[k].original = NoRef
                 ELSE eg.heap[eg.map[k].original] = eg.heapAtLoad[eg.map[k].attributes]
        /\ eg.queries = 0
        /\ eg.scopeCalls = IF eg.scope THEN 1 ELSE 0

\* after an eagerLoad with a scope callback over rows that share a key, the
\* attributes of a loaded instance have been changed
C16_Witness ==
    /\ eg.op = "eagerLoad" /\ eg.scope
    /\ Len(eg.results) > Cardinality(DOMAIN eg.map)
    /\ \E k \in DOMAIN eg.map :
          /\ eg.map[k].attributes # NoRef
          /\ eg.heap[eg.map[k].attributes] # eg.heapAtLoad[eg.map[k].attributes]

----------------------------------------------------------------------------
(* Claims about EagerLoader.load, checked under SpecLoader *)

\* C15: whatever the size of the result set, load calls the eagerLoad of each
\* requested relation it has reached exactly once and of no relation more than
\* once; and when a relation's eagerLoad fails the call is aborted with none of
\* that relation's data attached to any parent and no later relation loaded.
C15_OneEagerLoadPerRelation ==
    ld.pc # "idle" =>
        /\ \A r \in RelationNames :
              ld.eagerLoads[r] =
                  IF \E i \in 1..ld.pos : ld.requested[i] = r THEN 1 ELSE 0
        /\ ld.pc = "done" => ld.pos = Len(ld.requested)
        /\ ld.pc = "failed" =>
              /\ ld.attached[ld.requested[ld.pos]] = {}
              /\ \A i \in (ld.pos + 1)..Len(ld.requested) :
                    ld.eagerLoads[ld.requested[i]] = 0

\* over several parents the first relation was loaded and attached and the
\* second relation's load failed
C15_Witness ==
    /\ ld.pc = "failed"
    /\ ld.parents >= 2
    /\ ld.pos = 2
    /\ Cardinality(ld.attached[ld.requested[1]]) >= 2

----------------------------------------------------------------------------
(* Claims about the order of paginate's queries, checked under SpecPager *)

\* C17: in a paginate call no data query has been issued while the count query
\* is pending; a data query is issued only once a count that is not zero has
\* resolved; and the call issues at most one count query and at most one data
\* query.
C17_FetchOnlyAfterCount ==
    /\ pg.counts <= 1
    /\ pg.fetches <= 1
    /\ pg.pc = "count" => pg.counts = 1 /\ pg.fetches = 0
    /\ pg.fetches = 1 =>
          /\ pg.pc \in {"fetch", "done"}
          /\ pg.counts = 1
          /\ ~CountIsZero(pg.count)

\* a paginate call has returned after its count and then its fetch resolved
C17_Witness ==
    /\ pg.pc = "done"
    /\ pg.counts = 1
    /\ pg.fetches = 1
    /\ pg.result # NoResult

----------------------------------------------------------------------------
(* Claims about failed and overtaken opens, checked under Spec *)

\* C18: every connection call settles: once its open is no longer in flight
\* the call is not pending, and a call whose open failed has been rejected.
C18_FailedOpenIsRejected ==
    \A i \in 1..Len(calls) :
        /\ i \notin opening => calls[i].status # "pending"
        /\ calls[i].err = "connectRejected" => calls[i].status = "rejected"

\* C20: whenever no open is in flight, every handle ever opened is the pool
\* entry of its name or has been closed; and the handle of an open that was in
\* flight when close reset the pool has been closed, not put into the pool.
C20_NoHandleLeaked ==
    /\ opening = {} =>
          \A h \in 1..opened :
              closeCount[h] > 0 \/ connectionPools[handleName[h]] = h
    /\ \A i \in overtaken :
          calls[i].status = "resolved" => closeCount[calls[i].handle] > 0

====
